---- MODULE Spec2Model ----
(***************************************************************************)
(* Semantic analysis and lowering of src/codegen.cpp as a state machine.   *)
(*                                                                         *)
(* The CodeGen struct, the heap of TypeTableEntry objects, the side data   *)
(* attached to the AST and the IR module are the record g. The analyzer's  *)
(* loop over the root's declarations takes one declaration per step; the   *)
(* lowerer's loop over fn_defs takes one function per step.                *)
(***************************************************************************)
EXTENDS Integers, Sequences, FiniteSets, TLC

VARIABLES g, root, pc, it

vars == <<g, root, pc, it>>

\* ------------------------------------------------------------------ bounds
MaxDecls == 2
MaxPtrDepth == 1
MaxParams == 2

\* ------------------------------------------------------------ AST (input)
\* A TypeRef is a chain of pointer nodes over a primitive name: quals holds
\* the is_const flag of each pointer node, outermost first. The node at
\* depth d of a TypeRef placed at (line, column) is at (line, column + d).
PrimNames == {"u8", "unreachable", "foo"}

RECURSIVE QualSeqs(_)
QualSeqs(n) ==
    IF n = 0 THEN {<<>>}
    ELSE QualSeqs(n - 1) \cup
         {<<b>> \o q : b \in BOOLEAN, q \in {s \in QualSeqs(n - 1) : Len(s) = n - 1}}

TypeShapes == [quals : QualSeqs(MaxPtrDepth), primitive_name : PrimNames]

Prim(name) == [quals |-> <<>>, primitive_name |-> name]
Ptr(c, t) == [quals |-> <<c>> \o t.quals, primitive_name |-> t.primitive_name]

PlaceType(t, l, c) ==
    [type |-> "Type", quals |-> t.quals, primitive_name |-> t.primitive_name,
     line |-> l, column |-> c]

TypeSize(t) == Len(t.quals) + 1

RECURSIVE ParamsSize(_)
ParamsSize(ps) ==
    IF ps = <<>> THEN 0 ELSE 1 + TypeSize(Head(ps)) + ParamsSize(Tail(ps))

RECURSIVE PlaceParams(_, _, _)
PlaceParams(ps, l, c) ==
    IF ps = <<>> THEN <<>>
    ELSE <<[type |-> "ParamDecl", ptype |-> PlaceType(Head(ps), l, c + 1),
            line |-> l, column |-> c]>>
         \o PlaceParams(Tail(ps), l, c + 1 + TypeSize(Head(ps)))

ProtoSize(p) == 1 + ParamsSize(p.params) + TypeSize(p.return_type)

PlaceProto(p, l, c) ==
    [type |-> "FnProto", name |-> p.name,
     params |-> PlaceParams(p.params, l, c + 1),
     return_type |-> PlaceType(p.return_type, l, c + 1 + ParamsSize(p.params)),
     line |-> l, column |-> c]

RECURSIVE ExprSize(_)
RECURSIVE ExprsSize(_)
ExprsSize(es) == IF es = <<>> THEN 0 ELSE ExprSize(Head(es)) + ExprsSize(Tail(es))
ExprSize(e) == 1 + ExprsSize(e.params)

RECURSIVE PlaceExpr(_, _, _)
RECURSIVE PlaceExprs(_, _, _)
PlaceExprs(es, l, c) ==
    IF es = <<>> THEN <<>>
    ELSE <<PlaceExpr(Head(es), l, c)>> \o PlaceExprs(Tail(es), l, c + ExprSize(Head(es)))
PlaceExpr(e, l, c) ==
    [type |-> e.type, number |-> e.number, string |-> e.string, name |-> e.name,
     params |-> PlaceExprs(e.params, l, c + 1), line |-> l, column |-> c]

RECURSIVE PlaceBlock(_, _, _)
PlaceBlock(ss, l, c) ==
    IF ss = <<>> THEN <<>>
    ELSE <<[type |-> Head(ss).type,
            expression |-> PlaceExpr(Head(ss).expression, l, c + 1),
            line |-> l, column |-> c]>>
         \o PlaceBlock(Tail(ss), l, c + 1 + ExprSize(Head(ss).expression))

RECURSIVE PlaceFnDecls(_, _, _)
PlaceFnDecls(ps, l, c) ==
    IF ps = <<>> THEN <<>>
    ELSE <<[type |-> "FnDecl", fn_proto |-> PlaceProto(Head(ps), l, c + 1),
            line |-> l, column |-> c]>>
         \o PlaceFnDecls(Tail(ps), l, c + 1 + ProtoSize(Head(ps)))

\* A top-level declaration on line l; its nodes are numbered along the line
\* in document order.
PlaceDecl(d, l) ==
    IF d.type = "ExternBlock"
    THEN [type |-> "ExternBlock", fn_decls |-> PlaceFnDecls(d.fn_decls, l, 2),
          line |-> l, column |-> 1]
    ELSE [type |-> "FnDef", fn_proto |-> PlaceProto(d.fn_proto, l, 2),
          body |-> PlaceBlock(d.body, l, 2 + ProtoSize(d.fn_proto)),
          line |-> l, column |-> 1]

\* ------------------------------------------------------- node accessors
Coord(node) == <<node.line, node.column>>

IsPointer(node) == node.quals # <<>>

is_const(node) == Head(node.quals)

child_type(node) ==
    [node EXCEPT !.quals = Tail(@), !.column = @ + 1]

\* ---------------------------------------------------------- diagnostics
add_node_error(st, node, msg) ==
    [st EXCEPT !.errors = Append(@,
        [line_start |-> node.line, column_start |-> node.column,
         line_end |-> -1, column_end |-> -1, msg |-> msg])]

\* -------------------------------------------------------- type registry
NullEntry == 0

NewTypeEntry(id, type_ref, name, di_type) ==
    [id |-> id, type_ref |-> type_ref, di_type |-> di_type,
     pointer_child |-> NullEntry, pointer_is_const |-> FALSE, name |-> name,
     pointer_const_parent |-> NullEntry, pointer_mut_parent |-> NullEntry]

\* HashMap::put: the key's entry is set, replacing an existing one.
Put(map, key, value) ==
    [k \in DOMAIN map \cup {key} |-> IF k = key THEN value ELSE map[k]]

EmptyMap == [k \in {} |-> NullEntry]

AddEntry(st, entry) ==
    [st EXCEPT !.types = Append(@, entry),
               !.type_table = Put(@, entry.name, Len(st.types) + 1)]

add_types(st) ==
    LET s1 == AddEntry(st, NewTypeEntry("TypeIdU8", "i8", "u8", "di:u8"))
        s2 == AddEntry(s1, NewTypeEntry("TypeIdI32", "i32", "i32", "di:i32"))
        s3 == AddEntry(s2, NewTypeEntry("TypeIdVoid", "void", "void", "di:void"))
        s4 == [s3 EXCEPT !.invalid_type_entry = Len(s3.types)]
    IN AddEntry(s4, NewTypeEntry("TypeIdUnreachable", "void", "unreachable",
                                 s4.types[s4.invalid_type_entry].di_type))

Attach(st, node, entry) ==
    [st EXCEPT !.codegen_node = Put(@, Coord(node), entry)]

ParentSlot(entry, const) ==
    IF const THEN entry.pointer_const_parent ELSE entry.pointer_mut_parent

SetParentSlot(st, child, const, entry) ==
    IF const THEN [st EXCEPT !.types[child].pointer_const_parent = entry]
    ELSE [st EXCEPT !.types[child].pointer_mut_parent = entry]

\* Mutant: the interning slot is not consulted; every reference allocates.
InternPointer_no_reuse(st, node, child) ==
    LET const == is_const(node)
        const_or_mut_str == IF const THEN "const" ELSE "mut"
        entry == NewTypeEntry("TypeIdPointer",
                     st.types[child].type_ref \o "*",
                     "*" \o const_or_mut_str \o " " \o st.types[child].name,
                     "di:*" \o const_or_mut_str \o " " \o st.types[child].name)
        s1 == AddEntry(st, entry)
        new == Len(s1.types)
    IN SetParentSlot(Attach(s1, node, new), child, const, new)

\* Mutant: the const slot is used whatever the reference's constness.
InternPointer_const_slot_only(st, node, child) ==
    LET const == is_const(node)
        const_or_mut_str == IF const THEN "const" ELSE "mut"
        slot == ParentSlot(st.types[child], TRUE)
    IN IF slot # NullEntry
       THEN Attach(st, node, slot)
       ELSE LET entry == NewTypeEntry("TypeIdPointer",
                             st.types[child].type_ref \o "*",
                             "*" \o const_or_mut_str \o " " \o st.types[child].name,
                             "di:*" \o const_or_mut_str \o " " \o st.types[child].name)
                s1 == AddEntry(st, entry)
                new == Len(s1.types)
            IN SetParentSlot(Attach(s1, node, new), child, TRUE, new)

InternPointer(st, node, child) ==
    LET const == is_const(node)
        const_or_mut_str == IF const THEN "const" ELSE "mut"
        slot == ParentSlot(st.types[child], const)
    IN IF slot # NullEntry
       THEN Attach(st, node, slot)
       ELSE LET entry == NewTypeEntry("TypeIdPointer",
                             st.types[child].type_ref \o "*",
                             "*" \o const_or_mut_str \o " " \o st.types[child].name,
                             "di:*" \o const_or_mut_str \o " " \o st.types[child].name)
                s1 == AddEntry(st, entry)
                new == Len(s1.types)
            IN SetParentSlot(Attach(s1, node, new), child, const, new)

\* Mutant: an unknown name gets the sentinel without a diagnostic.
ResolvePrimitive_silent(st, node) ==
    LET name == node.primitive_name
    IN IF name \in DOMAIN st.type_table
       THEN Attach(st, node, st.type_table[name])
       ELSE Attach(st, node, st.invalid_type_entry)

ResolvePrimitive(st, node) ==
    LET name == node.primitive_name
    IN IF name \in DOMAIN st.type_table
       THEN Attach(st, node, st.type_table[name])
       ELSE Attach(add_node_error(st, node, "invalid type name: '" \o name \o "'"),
                   node, st.invalid_type_entry)

RECURSIVE resolve_type_and_recurse(_, _)
resolve_type_and_recurse(st, node) ==
    IF ~IsPointer(node)
    THEN ResolvePrimitive(st, node)
    ELSE LET s1 == resolve_type_and_recurse(st, child_type(node))
             child == s1.codegen_node[Coord(child_type(node))]
             s2 == IF s1.types[child].id = "TypeIdUnreachable"
                   THEN add_node_error(s1, node, "pointer to unreachable not allowed")
                   ELSE s1
         IN InternPointer(s2, node, child)

\* ------------------------------------------------------------- analyzer
type_is_unreachable(type_node) ==
    ~IsPointer(type_node) /\ type_node.primitive_name = "unreachable"

TypeEntryOf(st, type_node) == st.types[st.codegen_node[Coord(type_node)]]

to_llvm_type(st, type_node) == TypeEntryOf(st, type_node).type_ref

to_llvm_debug_type(st, type_node) == TypeEntryOf(st, type_node).di_type

RECURSIVE analyze_params(_, _)
analyze_params(st, params) ==
    IF params = <<>> THEN st
    ELSE analyze_params(resolve_type_and_recurse(st, Head(params).ptype), Tail(params))

\* Mutant: the return type is visited before the parameters.
analyze_fn_proto_return_first(st, proto) ==
    analyze_params(resolve_type_and_recurse(st, proto.return_type), proto.params)

analyze_fn_proto(st, proto) ==
    resolve_type_and_recurse(analyze_params(st, proto.params), proto.return_type)

LLVMFunctionType(st, proto) ==
    [return_type |-> to_llvm_type(st, proto.return_type),
     param_types |-> [i \in 1..Len(proto.params) |->
                        to_llvm_type(st, proto.params[i].ptype)]]

\* Mutant: the attribute is never attached.
NoReturnAttr_never(proto) == {}

NoReturnAttr(proto) ==
    IF type_is_unreachable(proto.return_type) THEN {"noreturn"} ELSE {}

\* LLVMAddFunction: the function is appended to the module; its handle is its
\* position. src_proto records the prototype it was created from.
LLVMAddFunction(st, proto, callconv, attrs) ==
    [st EXCEPT !.mod_functions = Append(@,
        [name |-> proto.name, fn_type |-> LLVMFunctionType(st, proto),
         linkage |-> "external", callconv |-> callconv, attrs |-> attrs,
         instrs |-> <<>>, src_proto |-> proto])]

analyze_fn_decl(st, fn_decl) ==
    LET fn_proto == fn_decl.fn_proto
        s1 == analyze_fn_proto(st, fn_proto)
        s2 == LLVMAddFunction(s1, fn_proto, "ccc", NoReturnAttr(fn_proto))
    IN [s2 EXCEPT !.fn_table = Put(@, fn_proto.name,
           [fn_value |-> Len(s2.mod_functions), proto_node |-> fn_proto])]

RECURSIVE analyze_extern_block(_, _)
analyze_extern_block(st, fn_decls) ==
    IF fn_decls = <<>> THEN st
    ELSE analyze_extern_block(analyze_fn_decl(st, Head(fn_decls)), Tail(fn_decls))

\* Mutant: the prototype is visited on a redefinition too.
analyze_fn_def_visit_always(st, node) ==
    LET proto_node == node.fn_proto
        proto_name == proto_node.name
    IN IF proto_name \in DOMAIN st.fn_defs
       THEN analyze_fn_proto(
                add_node_error(st, node, "redefinition of '" \o proto_name \o "'"),
                proto_node)
       ELSE analyze_fn_proto([st EXCEPT !.fn_defs = Put(@, proto_name, node)],
                             proto_node)

analyze_fn_def(st, node) ==
    LET proto_node == node.fn_proto
        proto_name == proto_node.name
    IN IF proto_name \in DOMAIN st.fn_defs
       THEN add_node_error(st, node, "redefinition of '" \o proto_name \o "'")
       ELSE analyze_fn_proto([st EXCEPT !.fn_defs = Put(@, proto_name, node)],
                             proto_node)

analyze_node(st, node) ==
    IF node.type = "ExternBlock"
    THEN analyze_extern_block(st, node.fn_decls)
    ELSE analyze_fn_def(st, node)

\* -------------------------------------------------------------- lowerer
Value(kind, n) == [kind |-> kind, n |-> n]

\* LLVMConstNull(LLVMInt32Type())
ConstNullI32 == Value("const_i32", 0)

\* LLVMConstIntOfStringAndSize in base 10; the literals of the inputs stay
\* far below the width of i32.
RECURSIVE ParseDecimal(_, _)
ParseDecimal(digits, acc) ==
    IF digits = <<>> THEN acc
    ELSE ParseDecimal(Tail(digits), acc * 10 + Head(digits))

\* An instruction appended at the builder's position; line and column record
\* the node whose lowering emitted it.
Emit(st, op, callee, args, node) ==
    [st EXCEPT !.mod_functions[st.builder].instrs = Append(@,
        [op |-> op, callee |-> callee, args |-> args,
         line |-> node.line, column |-> node.column])]

LastInstr(st) == Value("inst", Len(st.mod_functions[st.builder].instrs))

\* Mutant: str_table is not consulted; every literal gets a new global.
find_or_create_string_always_new(st, str) ==
    LET s1 == [st EXCEPT !.mod_globals = Append(@,
                  [initializer |-> str, length |-> Len(str),
                   linkage |-> "private", constant |-> TRUE,
                   unnamed_addr |-> TRUE])]
        global_value == Len(s1.mod_globals)
    IN [st |-> [s1 EXCEPT !.str_table = Put(@, str, global_value)],
        value |-> global_value]

find_or_create_string(st, str) ==
    IF str \in DOMAIN st.str_table
    THEN [st |-> st, value |-> st.str_table[str]]
    ELSE LET s1 == [st EXCEPT !.mod_globals = Append(@,
                       [initializer |-> str, length |-> Len(str),
                        linkage |-> "private", constant |-> TRUE,
                        unnamed_addr |-> TRUE])]
             global_value == Len(s1.mod_globals)
         IN [st |-> [s1 EXCEPT !.str_table = Put(@, str, global_value)],
             value |-> global_value]

\* gen_trace records each return of gen_expr: the node and the value returned.
Traced(r, node) ==
    [st |-> [r.st EXCEPT !.gen_trace = Append(@,
                [line |-> node.line, column |-> node.column, value |-> r.value])],
     value |-> r.value]

RECURSIVE gen_expr(_, _)
RECURSIVE gen_args(_, _)
RECURSIVE gen_fn_call(_, _)

\* Mutant: the arguments are lowered before the callee is looked up.
gen_fn_call_args_first(st, fn_call_node) ==
    LET name == fn_call_node.name
        a == gen_args(st, fn_call_node.params)
    IN IF name \notin DOMAIN st.fn_table
       THEN [st |-> add_node_error(a.st, fn_call_node,
                        "undefined function: '" \o name \o "'"),
             value |-> ConstNullI32]
       ELSE LET fn_table_entry == st.fn_table[name]
                expected_param_count == Len(fn_table_entry.proto_node.params)
                actual_param_count == Len(fn_call_node.params)
            IN IF expected_param_count # actual_param_count
               THEN [st |-> add_node_error(a.st, fn_call_node,
                                "wrong number of arguments. Expected "
                                \o ToString(expected_param_count) \o ", got "
                                \o ToString(actual_param_count) \o "."),
                     value |-> ConstNullI32]
               ELSE LET s1 == Emit(a.st, "call", fn_table_entry.fn_value,
                                   a.values, fn_call_node)
                    IN IF type_is_unreachable(fn_table_entry.proto_node.return_type)
                       THEN LET s2 == Emit(s1, "unreachable", 0, <<>>, fn_call_node)
                            IN [st |-> s2, value |-> LastInstr(s2)]
                       ELSE [st |-> s1, value |-> LastInstr(s1)]

\* Mutant: the call's result is returned whatever the callee's return type.
gen_fn_call_no_terminator(st, fn_call_node) ==
    LET name == fn_call_node.name
    IN IF name \notin DOMAIN st.fn_table
       THEN [st |-> add_node_error(st, fn_call_node,
                        "undefined function: '" \o name \o "'"),
             value |-> ConstNullI32]
       ELSE LET fn_table_entry == st.fn_table[name]
                expected_param_count == Len(fn_table_entry.proto_node.params)
                actual_param_count == Len(fn_call_node.params)
            IN IF expected_param_count # actual_param_count
               THEN [st |-> add_node_error(st, fn_call_node,
                                "wrong number of arguments. Expected "
                                \o ToString(expected_param_count) \o ", got "
                                \o ToString(actual_param_count) \o "."),
                     value |-> ConstNullI32]
               ELSE LET a == gen_args(st, fn_call_node.params)
                        s1 == Emit(a.st, "call", fn_table_entry.fn_value,
                                   a.values, fn_call_node)
                    IN [st |-> s1, value |-> LastInstr(s1)]

gen_args(st, params) ==
    IF params = <<>> THEN [st |-> st, values |-> <<>>]
    ELSE LET r == gen_expr(st, Head(params))
             rest == gen_args(r.st, Tail(params))
         IN [st |-> rest.st, values |-> <<r.value>> \o rest.values]

gen_fn_call(st, fn_call_node) ==
    LET name == fn_call_node.name
    IN IF name \notin DOMAIN st.fn_table
       THEN [st |-> add_node_error(st, fn_call_node,
                        "undefined function: '" \o name \o "'"),
             value |-> ConstNullI32]
       ELSE LET fn_table_entry == st.fn_table[name]
                expected_param_count == Len(fn_table_entry.proto_node.params)
                actual_param_count == Len(fn_call_node.params)
            IN IF expected_param_count # actual_param_count
               THEN [st |-> add_node_error(st, fn_call_node,
                                "wrong number of arguments. Expected "
                                \o ToString(expected_param_count) \o ", got "
                                \o ToString(actual_param_count) \o "."),
                     value |-> ConstNullI32]
               ELSE LET a == gen_args(st, fn_call_node.params)
                        s1 == Emit(a.st, "call", fn_table_entry.fn_value,
                                   a.values, fn_call_node)
                    IN IF type_is_unreachable(fn_table_entry.proto_node.return_type)
                       THEN LET s2 == Emit(s1, "unreachable", 0, <<>>, fn_call_node)
                            IN [st |-> s2, value |-> LastInstr(s2)]
                       ELSE [st |-> s1, value |-> LastInstr(s1)]

gen_expr(st, expr_node) ==
    Traced(
      CASE expr_node.type = "Number" ->
             [st |-> st, value |-> Value("const_i32", ParseDecimal(expr_node.number, 0))]
        [] expr_node.type = "String" ->
             LET r == find_or_create_string(st, expr_node.string)
                 s1 == Emit(r.st, "gep", 0, <<Value("global", r.value)>>, expr_node)
             IN [st |-> s1, value |-> LastInstr(s1)]
        [] expr_node.type = "FnCall" -> gen_fn_call(st, expr_node)
        [] expr_node.type = "Unreachable" ->
             LET s1 == Emit(st, "unreachable", 0, <<>>, expr_node)
             IN [st |-> s1, value |-> LastInstr(s1)],
      expr_node)

RECURSIVE gen_block(_, _)
gen_block(st, statements) ==
    IF statements = <<>> THEN st
    ELSE LET statement_node == Head(statements)
             r == gen_expr(st, statement_node.expression)
             s1 == IF statement_node.type = "Return"
                   THEN Emit(r.st, "ret", 0, <<r.value>>, statement_node)
                   ELSE r.st
         IN gen_block(s1, Tail(statements))

\* to_llvm_debug_type's assertions on the node it is handed.
DebugTypeAssertsHold(st, node) ==
    node.type = "Type" /\ Coord(node) \in DOMAIN st.codegen_node

\* create_di_function_type hands every element of fn_proto->params, a
\* ParamDecl node, to to_llvm_debug_type.
create_di_function_type_ok(st, fn_proto) ==
    /\ DebugTypeAssertsHold(st, fn_proto.return_type)
    /\ \A i \in 1..Len(fn_proto.params) : DebugTypeAssertsHold(st, fn_proto.params[i])

create_di_function_type(st, fn_proto) ==
    <<to_llvm_debug_type(st, fn_proto.return_type)>>
    \o [i \in 1..Len(fn_proto.params) |-> to_llvm_debug_type(st, fn_proto.params[i])]

\* code_gen's loop body up to the debug-info call: the IR function and its
\* attributes.
code_gen_add_function(st, fn_def_node) ==
    LET fn_proto == fn_def_node.fn_proto
    IN LLVMAddFunction(st, fn_proto, "ccc", NoReturnAttr(fn_proto) \cup {"nounwind"})

\* code_gen's loop body after create_di_function_type returned: the debug
\* function record, the entry block and the body.
code_gen_body(st, fn_def_node) ==
    LET fn_proto == fn_def_node.fn_proto
        s1 == [st EXCEPT !.di_functions = Append(@,
                  [name |-> fn_proto.name, line_number |-> fn_def_node.line + 1,
                   types |-> create_di_function_type(st, fn_proto)]),
               !.builder = Len(st.mod_functions)]
    IN gen_block(s1, fn_def_node.body)

IsTerminator(instr) == instr.op \in {"ret", "unreachable"}

\* What LLVMVerifyModule requires of a block: it ends in a terminator and
\* holds no other one.
BlockWellFormed(instrs) ==
    /\ instrs # <<>>
    /\ \A i \in 1..Len(instrs) : IsTerminator(instrs[i]) <=> i = Len(instrs)

ModuleWellFormed(st) ==
    \A k \in 1..Len(st.mod_functions) :
        "nounwind" \in st.mod_functions[k].attrs
            => BlockWellFormed(st.mod_functions[k].instrs)

\* --------------------------------------------------------------- inputs
FnNames == {"f", "g"}

U8 == Prim("u8")
Unreachable == Prim("unreachable")

Proto(name, params, return_type) ==
    [name |-> name, params |-> params, return_type |-> return_type]

Num(digits) ==
    [type |-> "Number", number |-> digits, string |-> "", name |-> "", params |-> <<>>]
Str(s) ==
    [type |-> "String", number |-> <<>>, string |-> s, name |-> "", params |-> <<>>]
Call(name, args) ==
    [type |-> "FnCall", number |-> <<>>, string |-> "", name |-> name, params |-> args]
Unr ==
    [type |-> "Unreachable", number |-> <<>>, string |-> "", name |-> "", params |-> <<>>]

ExprStmt(e) == [type |-> "Expression", expression |-> e]
RetStmt(e) == [type |-> "Return", expression |-> e]

ExternBlock(protos) ==
    [type |-> "ExternBlock", fn_decls |-> protos, fn_proto |-> <<>>, body |-> <<>>]
FnDef(proto, body) ==
    [type |-> "FnDef", fn_decls |-> <<>>, fn_proto |-> proto, body |-> body]

U8Lists == UNION {[1..n -> {U8}] : n \in 0..MaxParams}

\* Prototypes to call: every parameter count; f returns, g does not.
CallProtos ==
    {Proto("f", ps, U8) : ps \in U8Lists}
    \cup {Proto("g", ps, Unreachable) : ps \in {<<>>, <<U8>>}}

\* Prototypes over every TypeRef shape of a registered name, and with several
\* TypeRefs, of registered and unregistered names.
TypeProtos ==
    {Proto("f", <<>>, t) : t \in {s \in TypeShapes : s.primitive_name # "foo"}}
    \cup {Proto("f", <<Ptr(TRUE, U8), Ptr(TRUE, U8)>>, Ptr(FALSE, U8)),
          Proto("g", <<Prim("foo")>>, Ptr(FALSE, Prim("foo"))),
          Proto("g", <<Ptr(FALSE, Unreachable)>>, Unreachable)}

ExternBlocks ==
    {ExternBlock(<<>>)}
    \cup {ExternBlock(<<p>>) : p \in CallProtos}
    \cup {ExternBlock(<<Proto("f", <<U8, U8>>, U8), Proto("f", <<>>, Unreachable)>>),
          ExternBlock(<<Proto("f", <<>>, U8), Proto("g", <<U8>>, Unreachable)>>),
          ExternBlock(<<Proto("g", <<Ptr(FALSE, Prim("foo")), Ptr(FALSE, Prim("void"))>>,
                              Ptr(TRUE, Prim("foo")))>>),
          ExternBlock(<<Proto("f", <<Prim("void")>>, Ptr(TRUE, Unreachable))>>)}

Zero == Num(<<0>>)

BodyExprs ==
    {Call("f", <<>>),
     Call("f", <<Str("hi")>>),
     Call("f", <<Num(<<4, 2>>), Str("")>>),
     Call("g", <<Call("f", <<>>)>>),
     Call("f", <<Call("g", <<Unr>>), Call("f", <<Str("hi")>>)>>),
     Unr}

Bodies ==
    {<<>>}
    \cup {<<ExprStmt(e), RetStmt(Zero)>> : e \in BodyExprs}
    \cup {<<ExprStmt(Str("")), RetStmt(Str("hi"))>>,
          <<RetStmt(Call("g", <<Zero>>))>>}

FnDefs ==
    {FnDef(p, <<RetStmt(Zero)>>) : p \in TypeProtos}
    \cup {FnDef(Proto("g", <<>>, U8), b) : b \in Bodies}
    \cup {FnDef(Proto("f", <<>>, Unreachable), <<ExprStmt(Call("g", <<Zero>>))>>),
          FnDef(Proto("f", <<>>, U8),
                <<ExprStmt(Str("hi")), ExprStmt(Call("f", <<>>)), RetStmt(Zero)>>)}

TopLevelDecls == ExternBlocks \cup FnDefs

\* ------------------------------------------------------- state machine
\* create_codegen: empty tables, nothing analyzed.
Init ==
    /\ g = [mod_functions |-> <<>>, mod_globals |-> <<>>, di_functions |-> <<>>,
            fn_defs |-> EmptyMap, errors |-> <<>>, builder |-> 0,
            fn_table |-> EmptyMap, str_table |-> EmptyMap, type_table |-> EmptyMap,
            invalid_type_entry |-> NullEntry, types |-> <<>>,
            codegen_node |-> EmptyMap, gen_trace |-> <<>>]
    /\ root = <<>>
    /\ pc = "created"
    /\ it = {}

\* semantic_analyze up to the call of analyze_node on the root.
SemanticAnalyzeBegin ==
    /\ pc = "created"
    /\ g' = add_types(g)
    /\ pc' = "analyze"
    /\ UNCHANGED <<root, it>>

\* One iteration of analyze_node's loop over the root's declarations.
AnalyzeTopLevelDecl ==
    /\ pc = "analyze"
    /\ Len(root) < MaxDecls
    /\ \E d \in TopLevelDecls :
          LET child == PlaceDecl(d, Len(root) + 1)
          IN /\ root' = Append(root, child)
             /\ g' = analyze_node(g, child)
    /\ UNCHANGED <<pc, it>>

\* The loop ends; semantic_analyze returns.
SemanticAnalyzeReturn ==
    /\ pc = "analyze"
    /\ pc' = "analyzed"
    /\ UNCHANGED <<g, root, it>>

\* One iteration of code_gen's loop over fn_defs, whose order the hash map
\* decides.
CodeGenFn ==
    /\ pc \in {"analyzed", "codegen"}
    /\ \E name \in DOMAIN g.fn_defs \ it :
          LET fn_def_node == g.fn_defs[name]
              s1 == code_gen_add_function(g, fn_def_node)
          IN /\ it' = it \cup {name}
             /\ IF create_di_function_type_ok(s1, fn_def_node.fn_proto)
                THEN g' = code_gen_body(s1, fn_def_node) /\ pc' = "codegen"
                ELSE g' = s1 /\ pc' \in {"assert_failed", "segfault"}
    /\ UNCHANGED root

\* The iterator is exhausted: the module is verified and code_gen returns.
CodeGenReturn ==
    /\ pc \in {"analyzed", "codegen"}
    /\ it = DOMAIN g.fn_defs
    /\ pc' = IF ModuleWellFormed(g) THEN "done" ELSE "verify_failed"
    /\ UNCHANGED <<g, root, it>>

Next ==
    \/ SemanticAnalyzeBegin
    \/ AnalyzeTopLevelDecl
    \/ SemanticAnalyzeReturn
    \/ CodeGenFn
    \/ CodeGenReturn

Spec == Init /\ [][Next]_vars

\* ------------------------------------------------------ nodes of the AST
RECURSIVE TypeNodes(_)
TypeNodes(node) ==
    {node} \cup (IF IsPointer(node) THEN TypeNodes(child_type(node)) ELSE {})

ProtoTypeNodes(proto) ==
    TypeNodes(proto.return_type)
    \cup UNION {TypeNodes(proto.params[i].ptype) : i \in 1..Len(proto.params)}

ExternBlockNodes == {root[i] : i \in {k \in 1..Len(root) : root[k].type = "ExternBlock"}}

FnDefNodes == {root[i] : i \in {k \in 1..Len(root) : root[k].type = "FnDef"}}

FnDeclProtos ==
    UNION {{b.fn_decls[j].fn_proto : j \in 1..Len(b.fn_decls)} : b \in ExternBlockNodes}

IsRedefinition(d) ==
    \E e \in FnDefNodes : e.line < d.line /\ e.fn_proto.name = d.fn_proto.name

FirstFnDefs == {d \in FnDefNodes : ~IsRedefinition(d)}

AllProtos == FnDeclProtos \cup {d.fn_proto : d \in FnDefNodes}

AllTypeNodes == UNION {ProtoTypeNodes(p) : p \in AllProtos}

Entities == 1..Len(g.types)

Attached(n) == Coord(n) \in DOMAIN g.codegen_node

Resolved(n) == Attached(n) /\ g.codegen_node[Coord(n)] \in Entities

EntityOf(n) == g.codegen_node[Coord(n)]

AnalysisReturned == pc \notin {"created", "analyze"}

\* ------------------------------------------------------------------ C1
\* C1 as stated: after semantic_analyze returns, every TypeRef node reachable
\* from the root has a resolved type entity attached, the TypeRefs of FnDefs
\* whose name was already defined included.
C1_EveryTypeRefResolved ==
    AnalysisReturned => \A n \in AllTypeNodes : Resolved(n)

\* C1 (amended): after semantic_analyze returns, every TypeRef node of every
\* FnDecl prototype and of the first FnDef of each name has a resolved type
\* entity attached; the TypeRef nodes of a FnDef whose name was already
\* defined have none.
C1_TypeRefsResolvedButRedefinitions ==
    AnalysisReturned =>
        /\ \A p \in FnDeclProtos \cup {d.fn_proto : d \in FirstFnDefs} :
              \A n \in ProtoTypeNodes(p) : Resolved(n)
        /\ \A d \in FnDefNodes \ FirstFnDefs :
              \A n \in ProtoTypeNodes(d.fn_proto) : ~Attached(n)

C1_Witness ==
    /\ pc = "analyzed"
    /\ \E d \in FnDefNodes \ FirstFnDefs : IsPointer(d.fn_proto.return_type)
    /\ \E d \in FirstFnDefs :
          Len(d.fn_proto.params) > 0 /\ IsPointer(d.fn_proto.return_type)

\* ------------------------------------------------------------------ C2
SlotIn(st, c, const) == ParentSlot(st.types[c], const)

Slots == Entities \X BOOLEAN

PointerEntities == {e \in Entities : g.types[e].id = "TypeIdPointer"}

PointerName(c, const) ==
    "*" \o (IF const THEN "const" ELSE "mut") \o " " \o g.types[c].name

C2_OnePointerPerSlot ==
    /\ \A e \in PointerEntities :
          Cardinality({s \in Slots : SlotIn(g, s[1], s[2]) = e}) = 1
    /\ \A s \in Slots :
          SlotIn(g, s[1], s[2]) # NullEntry =>
              /\ SlotIn(g, s[1], s[2]) \in PointerEntities
              /\ g.types[SlotIn(g, s[1], s[2])].name = PointerName(s[1], s[2])

C2_PointerRefsUseSlot ==
    \A n \in {m \in AllTypeNodes : IsPointer(m) /\ Attached(m)} :
        /\ Resolved(child_type(n))
        /\ EntityOf(n) # NullEntry
        /\ EntityOf(n) = SlotIn(g, EntityOf(child_type(n)), is_const(n))

\* The prototype of scenario S5, analyzed alone.
C2_IsS5(p) ==
    /\ Len(p.params) = 2
    /\ \A i \in 1..2 : p.params[i].ptype.quals = <<TRUE>>
                       /\ p.params[i].ptype.primitive_name = "u8"
    /\ p.return_type.quals = <<FALSE>> /\ p.return_type.primitive_name = "u8"

C2_S5 ==
    \A p \in AllProtos :
        (C2_IsS5(p) /\ AllProtos = {p} /\ Attached(p.return_type)) =>
            /\ Cardinality(PointerEntities) = 2
            /\ EntityOf(p.params[1].ptype) = EntityOf(p.params[2].ptype)
            /\ EntityOf(p.return_type) # EntityOf(p.params[1].ptype)

C2_SlotsStable ==
    /\ \A c \in Entities : \A const \in BOOLEAN :
          SlotIn(g, c, const) # NullEntry =>
              SlotIn(g', c, const) = SlotIn(g, c, const)
    /\ Len(g'.types) >= Len(g.types)
    /\ pc # "created" =>
          Len(g'.types) - Len(g.types) =
              Cardinality({s \in (1..Len(g'.types)) \X BOOLEAN :
                              /\ SlotIn(g', s[1], s[2]) # NullEntry
                              /\ (s[1] \in Entities => SlotIn(g, s[1], s[2]) = NullEntry)})

\* C2: there is at most one pointer type entity for each (child entity,
\* constness) pair, the one in the child's interning slot; every resolved
\* Pointer TypeRef is attached to the entity in its child's slot; a pointer
\* entity is created only when a slot is filled, and a filled slot never
\* changes; the prototype of S5 creates two pointer entities and its two
\* `*const u8` references share one.
C2_PointerInterning ==
    /\ [](C2_OnePointerPerSlot /\ C2_PointerRefsUseSlot /\ C2_S5)
    /\ [][C2_SlotsStable]_vars

C2_Witness ==
    \E p \in AllProtos :
        /\ C2_IsS5(p) /\ AllProtos = {p} /\ Attached(p.return_type)
        /\ Cardinality(PointerEntities) = 2

\* ------------------------------------------------- lowered expressions
RECURSIVE ExprNodes(_)
ExprNodes(e) == {e} \cup UNION {ExprNodes(e.params[i]) : i \in 1..Len(e.params)}

BodyExprNodes(d) == UNION {ExprNodes(d.body[i].expression) : i \in 1..Len(d.body)}

AllExprNodes == UNION {BodyExprNodes(d) : d \in FnDefNodes}

CallNodes == {e \in AllExprNodes : e.type = "FnCall"}

At(rec, n) == rec.line = n.line /\ rec.column = n.column

TraceIdx(n) == {i \in 1..Len(g.gen_trace) : At(g.gen_trace[i], n)}

Lowered(n) == TraceIdx(n) # {}

TraceOf(n) == CHOOSE i \in TraceIdx(n) : TRUE

ErrorsAt(n) ==
    {i \in 1..Len(g.errors) :
        g.errors[i].line_start = n.line /\ g.errors[i].column_start = n.column}

\* The instructions a node's lowering emitted, as <<function, position>>.
InstrsAt(n, op) ==
    {ki \in UNION {{<<k, i>> : i \in 1..Len(g.mod_functions[k].instrs)} :
                      k \in 1..Len(g.mod_functions)} :
        /\ At(g.mod_functions[ki[1]].instrs[ki[2]], n)
        /\ g.mod_functions[ki[1]].instrs[ki[2]].op = op}

InstrsUnder(n) ==
    UNION {InstrsAt(d, op) : d \in ExprNodes(n) \ {n},
                             op \in {"call", "unreachable", "gep", "ret"}}

InFnTable(c) == c.name \in DOMAIN g.fn_table

ExpectedCount(c) == Len(g.fn_table[c.name].proto_node.params)

Resolves(c) == InFnTable(c) /\ ExpectedCount(c) = Len(c.params)

\* ------------------------------------------------------------------ C3
\* C3 as stated: lowering a FnCall whose callee is the name of a FnDef
\* registered in fn_defs, with as many arguments as that FnDef has
\* parameters, records no "undefined function" diagnostic and emits a call
\* instruction.
C3_LocalFunctionsCallable ==
    \A c \in CallNodes :
        ( /\ Lowered(c)
          /\ c.name \in DOMAIN g.fn_defs
          /\ Len(c.params) = Len(g.fn_defs[c.name].fn_proto.params) ) =>
            /\ \A i \in ErrorsAt(c) :
                  g.errors[i].msg # "undefined function: '" \o c.name \o "'"
            /\ InstrsAt(c, "call") # {}

\* ------------------------------------------------------------------ C4
LowererStopped == pc \in {"done", "verify_failed", "assert_failed", "segfault"}

LoweredFunctions(name) ==
    {k \in 1..Len(g.mod_functions) :
        g.mod_functions[k].name = name /\ "nounwind" \in g.mod_functions[k].attrs}

BodyLoweredOnce(d) ==
    /\ Cardinality(LoweredFunctions(d.fn_proto.name)) = 1
    /\ \A i \in 1..Len(d.body) :
          /\ Cardinality(TraceIdx(d.body[i].expression)) = 1
          /\ d.body[i].type = "Return" =>
                \E ki \in InstrsAt(d.body[i], "ret") : ki[1] \in LoweredFunctions(d.fn_proto.name)

C4_FirstDefinitionWins ==
    /\ DOMAIN g.fn_defs = {d.fn_proto.name : d \in FnDefNodes}
    /\ \A d \in FirstFnDefs : g.fn_defs[d.fn_proto.name] = d
    /\ \A d \in FnDefNodes \ FirstFnDefs :
          /\ Cardinality(ErrorsAt(d)) = 1
          /\ \A i \in ErrorsAt(d) :
                g.errors[i].msg = "redefinition of '" \o d.fn_proto.name \o "'"
    /\ \A d \in FirstFnDefs : ErrorsAt(d) = {}

\* C4 as stated: fn_defs maps each name to its first FnDef and is never
\* overwritten, every later FnDef of the name records exactly one
\* "redefinition of '<name>'" diagnostic at its own coordinates, and the
\* Lowerer lowers each name exactly once, with the first definition's body.
C4_Redefinition ==
    /\ C4_FirstDefinitionWins
    /\ LowererStopped =>
          /\ \A d \in FirstFnDefs : BodyLoweredOnce(d)
          /\ \A d \in FnDefNodes \ FirstFnDefs : \A e \in BodyExprNodes(d) : ~Lowered(e)

\* What is left of C4 when no function setup fails: the same statement for
\* the runs in which code_gen reaches its post-pass.
C4_RedefinitionWhenSetupSucceeds ==
    /\ C4_FirstDefinitionWins
    /\ pc \in {"done", "verify_failed"} =>
          /\ \A d \in FirstFnDefs : BodyLoweredOnce(d)
          /\ \A d \in FnDefNodes \ FirstFnDefs : \A e \in BodyExprNodes(d) : ~Lowered(e)

\* ------------------------------------------------------------------ C5
WrongCountMsg(expected, actual) ==
    "wrong number of arguments. Expected " \o ToString(expected)
    \o ", got " \o ToString(actual) \o "."

C5_Rejected(c, msg) ==
    /\ Cardinality(ErrorsAt(c)) = 1
    /\ \A i \in ErrorsAt(c) : g.errors[i].msg = msg
    /\ InstrsAt(c, "call") = {}
    /\ g.gen_trace[TraceOf(c)].value = [kind |-> "const_i32", n |-> 0]
    /\ \A d \in ExprNodes(c) \ {c} : ~Lowered(d)

C5_Emitted(c) ==
    /\ ErrorsAt(c) = {}
    /\ \A i \in 1..Len(c.params) :
          /\ Cardinality(TraceIdx(c.params[i])) = 1
          /\ TraceOf(c.params[i]) < TraceOf(c)
          /\ i > 1 => TraceOf(c.params[i - 1]) < TraceOf(c.params[i])
    /\ Cardinality(InstrsAt(c, "call")) = 1
    /\ \A ki \in InstrsAt(c, "call") :
          /\ \A u \in InstrsUnder(c) : u[1] = ki[1] /\ u[2] < ki[2]
          /\ g.mod_functions[ki[1]].instrs[ki[2]].args =
                [i \in 1..Len(c.params) |-> g.gen_trace[TraceOf(c.params[i])].value]

C5_BlocksRunToTheEnd ==
    \A d \in FnDefNodes :
        (d.body # <<>> /\ Lowered(d.body[1].expression)) =>
            \A i \in 1..Len(d.body) : Lowered(d.body[i].expression)

\* C5: a lowered FnCall whose callee is absent from fn_table records exactly
\* one "undefined function: '<name>'" diagnostic at the call node, emits no
\* call and returns the i32 null constant; one whose argument count A differs
\* from the stored prototype's parameter count E records exactly one "wrong
\* number of arguments. Expected E, got A." diagnostic, emits no call and
\* returns the same constant; in both cases no argument is lowered. Otherwise
\* no diagnostic is recorded at the node, the arguments are lowered left to
\* right and exactly one call is emitted after them. The statements that
\* follow in the block are lowered in every case.
C5_CallLowering ==
    /\ \A c \in CallNodes :
          Lowered(c) =>
              /\ Cardinality(TraceIdx(c)) = 1
              /\ IF ~InFnTable(c)
                 THEN C5_Rejected(c, "undefined function: '" \o c.name \o "'")
                 ELSE IF ExpectedCount(c) # Len(c.params)
                      THEN C5_Rejected(c, WrongCountMsg(ExpectedCount(c), Len(c.params)))
                      ELSE C5_Emitted(c)
    /\ C5_BlocksRunToTheEnd

C5_Witness ==
    \E c \in CallNodes :
        /\ Lowered(c) /\ Resolves(c) /\ Len(c.params) = 2
        /\ \E d \in CallNodes \cap ExprNodes(c) :
              d # c /\ Lowered(d) /\ ~InFnTable(d) /\ Len(d.params) > 0
        /\ \E d \in CallNodes \cap ExprNodes(c) :
              /\ d # c /\ Lowered(d) /\ InFnTable(d)
              /\ ExpectedCount(d) # Len(d.params) /\ Len(d.params) > 0
        /\ \E e \in FnDefNodes :
              /\ Len(e.body) > 1 /\ c = e.body[1].expression
              /\ Lowered(e.body[2].expression)

\* ------------------------------------------------------------------ C6
ResolvesToUnreachable(type_node) ==
    /\ EntityOf(type_node) = g.type_table["unreachable"]
    /\ g.types[EntityOf(type_node)].id = "TypeIdUnreachable"

\* C6: a function of the IR module, added for an extern FnDecl or for a
\* FnDef, carries the no-return attribute if and only if the type entity
\* attached to its return TypeRef is the `unreachable` entity.
C6_NoReturnIffUnreachable ==
    \A k \in 1..Len(g.mod_functions) :
        "noreturn" \in g.mod_functions[k].attrs
            <=> ResolvesToUnreachable(g.mod_functions[k].src_proto.return_type)

C6_Witness ==
    /\ \E k \in 1..Len(g.mod_functions) :
          /\ "noreturn" \in g.mod_functions[k].attrs
          /\ "nounwind" \in g.mod_functions[k].attrs
    /\ \E k \in 1..Len(g.mod_functions) :
          /\ "noreturn" \notin g.mod_functions[k].attrs
          /\ g.mod_functions[k].src_proto.return_type.primitive_name = "unreachable"

\* ------------------------------------------------------------------ C7
LoweredStrings == {e \in AllExprNodes : e.type = "String" /\ Lowered(e)}

\* The global a lowered String node's address computation is based on.
GlobalOf(e) ==
    LET ki == CHOOSE x \in InstrsAt(e, "gep") : TRUE
    IN g.mod_functions[ki[1]].instrs[ki[2]].args[1].n

C7_OneGlobalPerContent ==
    /\ \A e \in LoweredStrings :
          /\ Cardinality(InstrsAt(e, "gep")) = 1
          /\ GlobalOf(e) \in 1..Len(g.mod_globals)
          /\ g.mod_globals[GlobalOf(e)].initializer = e.string
          /\ g.mod_globals[GlobalOf(e)].length = Len(e.string)
    /\ \A a, b \in LoweredStrings :
          (a.string = b.string) <=> (GlobalOf(a) = GlobalOf(b))
    /\ Len(g.mod_globals) = Cardinality({e.string : e \in LoweredStrings})

C7_PoolStable ==
    \A str \in DOMAIN g.str_table :
        str \in DOMAIN g'.str_table /\ g'.str_table[str] = g.str_table[str]

CalleeReturnsUnreachable(c) ==
    g.types[EntityOf(g.fn_table[c.name].proto_node.return_type)].id = "TypeIdUnreachable"

\* C8: a resolved call of a function whose return type is `unreachable`
\* emits exactly one unreachable terminator, the instruction right after the
\* call instruction in the block; a resolved call of a function of any other
\* return type emits none.
C8_UnreachableAfterNoReturnCall ==
    \A c \in CallNodes :
        (Lowered(c) /\ Resolves(c)) =>
            IF CalleeReturnsUnreachable(c)
            THEN /\ Cardinality(InstrsAt(c, "unreachable")) = 1
                 /\ \A u \in InstrsAt(c, "unreachable") :
                       \A ki \in InstrsAt(c, "call") :
                           u[1] = ki[1] /\ u[2] = ki[2] + 1
                 /\ InstrsAt(c, "call") # {}
            ELSE InstrsAt(c, "unreachable") = {}

C8_Witness ==
    /\ \E c \in CallNodes :
          /\ Lowered(c) /\ Resolves(c) /\ CalleeReturnsUnreachable(c)
          /\ Len(c.params) > 0
    /\ \E c \in CallNodes :
          Lowered(c) /\ Resolves(c) /\ ~CalleeReturnsUnreachable(c)

\* ------------------------------------------------------------------ C9
NotLater(a, b) ==
    \/ a.line_start < b.line_start
    \/ a.line_start = b.line_start /\ a.column_start <= b.column_start

DocumentOrdered(errors) ==
    \A i, j \in 1..Len(errors) : i < j => NotLater(errors[i], errors[j])

C9_AppendOnly ==
    /\ Len(g'.errors) >= Len(g.errors)
    /\ SubSeq(g'.errors, 1, Len(g.errors)) = g.errors

\* C9 as stated: the sink only grows by appending, and once analysis has
\* returned and once lowering has returned, every diagnostic in the sink is
\* attached to a node that is not later in document order than the node of
\* any diagnostic after it.
C9_DocumentOrder ==
    /\ [] ((pc \in {"analyzed", "done"}) => DocumentOrdered(g.errors))
    /\ [][C9_AppendOnly]_vars

\* A diagnostic of the Lowerer is one attached to a FnCall node.
IsLowererError(e) ==
    \E c \in CallNodes : e.line_start = c.line /\ e.column_start = c.column

IsAnalyzerError(e) == ~IsLowererError(e)

C9_AnalyzerOrdered ==
    /\ DocumentOrdered(SelectSeq(g.errors, IsAnalyzerError))
    /\ \A i, j \in 1..Len(g.errors) :
          (IsLowererError(g.errors[i]) /\ IsAnalyzerError(g.errors[j])) => j < i
    /\ \A i, j \in 1..Len(g.errors) :
          (/\ i < j
           /\ IsLowererError(g.errors[i]) /\ IsLowererError(g.errors[j])
           /\ g.errors[i].line_start = g.errors[j].line_start)
              => NotLater(g.errors[i], g.errors[j])
    /\ (pc \in {"created", "analyze", "analyzed"}) =>
          \A i \in 1..Len(g.errors) : IsAnalyzerError(g.errors[i])

\* C9 (amended): the sink only grows by appending; the diagnostics the
\* Analyzer records are in document order, so the sink is in document order
\* when analysis returns; the diagnostics the Lowerer records come after all
\* of the Analyzer's, those of one function in document order, and may be
\* attached to nodes earlier in the document than the entries before them.
C9_AnalyzerDocumentOrder ==
    [] C9_AnalyzerOrdered /\ [][C9_AppendOnly]_vars

C9_Witness ==
    /\ pc = "done"
    /\ ~DocumentOrdered(g.errors)
    /\ \E i \in 1..Len(g.errors) : IsAnalyzerError(g.errors[i])
    /\ \E i \in 1..Len(g.errors) : IsLowererError(g.errors[i])

\* ----------------------------------------------------------------- C10
ResolvedPrimitives == {n \in AllTypeNodes : ~IsPointer(n) /\ Attached(n)}

\* C10: a Primitive TypeRef whose name is not in the type registry is
\* attached to the invalid-type sentinel, the `void` entity, and has exactly
\* one diagnostic "invalid type name: '<name>'" at its coordinates; one whose
\* name is registered is attached to the registered entity and has no
\* diagnostic; the TypeRefs after it in the prototype are resolved too.
C10_InvalidTypeSentinel ==
    /\ \A n \in ResolvedPrimitives :
          IF n.primitive_name \in DOMAIN g.type_table
          THEN /\ EntityOf(n) = g.type_table[n.primitive_name]
               /\ g.types[EntityOf(n)].name = n.primitive_name
               /\ ErrorsAt(n) = {}
          ELSE /\ EntityOf(n) = g.invalid_type_entry
               /\ g.types[EntityOf(n)].id = "TypeIdVoid"
               /\ EntityOf(n) = g.type_table["void"]
               /\ Cardinality(ErrorsAt(n)) = 1
               /\ \A i \in ErrorsAt(n) :
                     g.errors[i].msg = "invalid type name: '" \o n.primitive_name \o "'"
    /\ \A p \in AllProtos :
          (\E n \in ProtoTypeNodes(p) : Attached(n)) =>
              \A n \in ProtoTypeNodes(p) : Resolved(n)

C10_Witness ==
    \E p \in AllProtos :
        /\ Len(p.params) > 0
        /\ p.params[1].ptype.primitive_name \notin DOMAIN g.type_table
        /\ Resolved(p.params[1].ptype)
        /\ Resolved(p.return_type)
        /\ \E q \in AllProtos : q.line > p.line /\ Resolved(q.return_type)

\* ----------------------------------------------------------------- C11
ResolvedTypeNodes == {n \in AllTypeNodes : Resolved(n)}

\* Structural equality of TypeRefs: the same chain of pointer constness down
\* to the same primitive name.
StructurallyEqual(a, b) ==
    a.quals = b.quals /\ a.primitive_name = b.primitive_name

\* C11 as stated: two resolved TypeRef nodes are attached to the same type
\* entity if and only if they are structurally equal.
C11_InjectiveOnStructure ==
    \A a, b \in ResolvedTypeNodes :
        (EntityOf(a) = EntityOf(b)) <=> StructurallyEqual(a, b)

\* The name a primitive resolves under: its own when registered, `void` when
\* not.
ResolvedName(n) ==
    IF n.primitive_name \in DOMAIN g.type_table THEN n.primitive_name ELSE "void"

\* C11 (amended): two resolved TypeRef nodes are attached to the same type
\* entity if and only if they are structurally equal once every unregistered
\* primitive name is read as `void`; structurally equal TypeRefs always share
\* their entity.
C11_InjectiveUpToSentinel ==
    \A a, b \in ResolvedTypeNodes :
        /\ (EntityOf(a) = EntityOf(b)) <=>
              (a.quals = b.quals /\ ResolvedName(a) = ResolvedName(b))
        /\ StructurallyEqual(a, b) => EntityOf(a) = EntityOf(b)

C11_Witness ==
    /\ \E a, b \in ResolvedTypeNodes :
          /\ IsPointer(a) /\ a.primitive_name = "foo" /\ b.primitive_name = "void"
          /\ EntityOf(a) = EntityOf(b)
    /\ \E a, b \in ResolvedTypeNodes :
          /\ IsPointer(a) /\ a.primitive_name = "foo" /\ b.primitive_name = "foo"
          /\ a.quals # b.quals /\ Len(a.quals) = Len(b.quals)
          /\ EntityOf(a) # EntityOf(b)
    /\ \E a, b \in ResolvedTypeNodes :
          /\ IsPointer(a) /\ a.line # b.line /\ StructurallyEqual(a, b)
          /\ EntityOf(a) = EntityOf(b)
    /\ \E a \in ResolvedTypeNodes :
          ~IsPointer(a) /\ a.primitive_name = "foo" /\ EntityOf(a) = g.invalid_type_entry

\* ----------------------------------------------------------------- C12
SetupFailed == pc \in {"assert_failed", "segfault"}

\* The debug subroutine type the claim describes for a prototype.
ExpectedDebugTypes(fn_proto) ==
    <<g.types[EntityOf(fn_proto.return_type)].di_type>>
    \o [i \in 1..Len(fn_proto.params) |->
          g.types[EntityOf(fn_proto.params[i].ptype)].di_type]

DebugFunctionsOf(name) ==
    {k \in 1..Len(g.di_functions) : g.di_functions[k].name = name}

SetupCompleted(fn_def_node) ==
    /\ Cardinality(DebugFunctionsOf(fn_def_node.fn_proto.name)) = 1
    /\ \A k \in DebugFunctionsOf(fn_def_node.fn_proto.name) :
          /\ Len(g.di_functions[k].types) = Len(fn_def_node.fn_proto.params) + 1
          /\ g.di_functions[k].types = ExpectedDebugTypes(fn_def_node.fn_proto)

\* C12 as stated: for every FnDef of fn_defs the Lowerer has come to, function
\* setup completes without an assertion failure and creates a debug
\* subroutine type of n+1 elements: the return type's debug handle, then the
\* debug handle of each parameter's resolved type, in parameter order.
C12_DebugSubroutineType ==
    /\ ~SetupFailed
    /\ \A name \in it : SetupCompleted(g.fn_defs[name])

\* What is left of C12 for FnDefs without parameters: setup completes and the
\* subroutine type is the return type's debug handle alone; and setup fails
\* only at a FnDef that has a parameter.
C12_ParameterlessSetup ==
    /\ \A name \in it :
          g.fn_defs[name].fn_proto.params = <<>> => SetupCompleted(g.fn_defs[name])
    /\ SetupFailed =>
          \E name \in it :
              /\ g.fn_defs[name].fn_proto.params # <<>>
              /\ DebugFunctionsOf(name) = {}
    /\ \A name \in it :
          g.fn_defs[name].fn_proto.params # <<>> => SetupFailed

====
